---- MODULE Spec2Model ----
(***************************************************************************)
(* Model of LyricsProcessor (src/lyrics_processor.py): the line splitter   *)
(* parse_bilingual_lyrics, the metadata test _is_metadata_line and the     *)
(* script separator _separate_languages.                                   *)
(*                                                                         *)
(* A Python str is modelled as a sequence of Unicode code points, so the   *)
(* range tests of the code (U+3040 <= c <= U+309F, ord(c) < 128) are the   *)
(* same comparisons on integers.                                           *)
(***************************************************************************)
EXTENDS Integers, Sequences, FiniteSets

(***************************************************************************)
(* Bounds of the model.                                                    *)
(***************************************************************************)
MaxLen == 4

MaxBody == 3

(***************************************************************************)
(* Characters.                                                             *)
(***************************************************************************)
SPACE == 32

NEWLINE == 10

\* str.isspace(), which is what str.strip() strips and what \s matches in a
\* str pattern.
WhitespaceChars ==
    (9..13) \cup (28..32) \cup {133, 160, 5760} \cup (8192..8202)
        \cup {8232, 8233, 8239, 8287, 12288}

IsSpace(c) == c \in WhitespaceChars

\* [U+3040-U+309F]
IsHiragana(c) == c >= 12352 /\ c <= 12447

\* [U+30A0-U+30FF]
IsKatakana(c) == c >= 12448 /\ c <= 12543

\* [U+4E00-U+9FFF]
IsKanji(c) == c >= 19968 /\ c <= 40959

\* [a-zA-Z], and char.isalpha() and ord(char) < 128
IsAsciiAlpha(c) == (c >= 65 /\ c <= 90) \/ (c >= 97 /\ c <= 122)

\* char.isdigit(): the decimal digits and the digit-valued characters below
\* U+0800, and the fullwidth digits.
IsDigit(c) ==
    c \in (48..57) \cup {178, 179, 185} \cup (1632..1641) \cup (1776..1785)
        \cup (1984..1993) \cup (65296..65305)

\* \d in a str pattern: the decimal digits (category Nd) below U+0800, and
\* the fullwidth digits.
IsDecimal(c) ==
    c \in (48..57) \cup (1632..1641) \cup (1776..1785) \cup (1984..1993)
        \cup (65296..65305)

(***************************************************************************)
(* Strings.                                                                *)
(***************************************************************************)
RECURSIVE LStrip(_)
LStrip(s) ==
    IF s # <<>> /\ IsSpace(Head(s)) THEN LStrip(Tail(s)) ELSE s

RECURSIVE RStrip(_)
RStrip(s) ==
    IF s # <<>> /\ IsSpace(s[Len(s)])
    THEN RStrip(SubSeq(s, 1, Len(s) - 1))
    ELSE s

\* str.strip()
Strip(s) == RStrip(LStrip(s))

\* re.sub(r'\s+', ' ', s): every maximal run of whitespace becomes one space.
RECURSIVE CollapseWs(_)
CollapseWs(s) ==
    IF s = <<>> THEN <<>>
    ELSE IF IsSpace(Head(s))
         THEN <<SPACE>> \o CollapseWs(LStrip(s))
         ELSE <<Head(s)>> \o CollapseWs(Tail(s))

\* str.split(sep) on a one-character separator: never empty, and the pieces
\* joined by sep give s back.
RECURSIVE SplitFrom(_, _, _)
SplitFrom(s, sep, cur) ==
    IF s = <<>> THEN <<cur>>
    ELSE IF Head(s) = sep
         THEN <<cur>> \o SplitFrom(Tail(s), sep, <<>>)
         ELSE SplitFrom(Tail(s), sep, Append(cur, Head(s)))

Split(s, sep) == SplitFrom(s, sep, <<>>)

\* sep.join(parts)
RECURSIVE Join(_, _)
Join(parts, sep) ==
    IF parts = <<>> THEN <<>>
    ELSE IF Len(parts) = 1 THEN parts[1]
         ELSE parts[1] \o sep \o Join(Tail(parts), sep)

StartsWith(s, p) == Len(s) >= Len(p) /\ SubSeq(s, 1, Len(p)) = p

Range(s) == {s[i] : i \in DOMAIN s}

\* The strings of length at most n over the alphabet A.
RECURSIVE StringsUpTo(_, _)
StringsUpTo(A, n) ==
    IF n = 0 THEN {<<>>}
    ELSE LET shorter == StringsUpTo(A, n - 1)
         IN  shorter \cup {Append(s, c) : s \in shorter, c \in A}

(***************************************************************************)
(* _separate_languages: the kana path (lines 298-454).                     *)
(***************************************************************************)
HasHiragana(text) == \E i \in DOMAIN text : IsHiragana(text[i])

HasKatakana(text) == \E i \in DOMAIN text : IsKatakana(text[i])

HasKanji(text) == \E i \in DOMAIN text : IsKanji(text[i])

HasEnglish(text) == \E i \in DOMAIN text : IsAsciiAlpha(text[i])

IsJapaneseContext(text) == HasHiragana(text) \/ HasKatakana(text)

\* ['unassigned'] * len(text)
Unassigned(text) == [i \in 1..Len(text) |-> "unassigned"]

\* Pass 1: kana are Japanese.
Pass1(text, ca) ==
    [i \in DOMAIN ca |->
        IF IsHiragana(text[i]) \/ IsKatakana(text[i]) THEN "japanese" ELSE ca[i]]

\* The type of one word of text.split(' ').
WordType(word) ==
    IF HasHiragana(word) \/ HasKatakana(word) THEN "japanese"
    ELSE IF HasKanji(word) /\ ~HasHiragana(word) /\ ~HasKatakana(word)
         THEN "chinese"
         ELSE "chinese"

\* The inner loop of pass 2: the unassigned Han characters of the word that
\* is taken to start at (0-based) offset current_pos get the word's type.
\* Slot p of the model is index p - 1 of the code.
AssignWord(word, current_pos, ca) ==
    [p \in DOMAIN ca |->
        IF \E j \in 1..Len(word) :
               /\ p = current_pos + j
               /\ IsKanji(word[j])
               /\ ca[p] = "unassigned"
        THEN WordType(word)
        ELSE ca[p]]

\* Mutant of SkipEmptyWord: the empty word is skipped without counting its
\* space.
SkipEmptyWordNoAdvance(current_pos) == current_pos

\* What current_pos becomes after an empty word.
SkipEmptyWord(current_pos) == current_pos + 1

\* Pass 2: the loop over the words, from word k on.
RECURSIVE Pass2Words(_, _, _, _)
Pass2Words(words, k, current_pos, ca) ==
    IF k > Len(words) THEN ca
    ELSE IF words[k] = <<>>
         THEN Pass2Words(words, k + 1, SkipEmptyWord(current_pos), ca)
         ELSE Pass2Words(words, k + 1, current_pos + Len(words[k]) + 1,
                         AssignWord(words[k], current_pos, ca))

Pass2(text, ca) == Pass2Words(Split(text, SPACE), 1, 0, ca)

\* Pass 3: the ASCII letters still unassigned are English.
Pass3(text, ca) ==
    [i \in DOMAIN ca |->
        IF IsAsciiAlpha(text[i]) /\ ca[i] = "unassigned" THEN "english" ELSE ca[i]]

\* '.,!?;:()[]{}' and the fullwidth ? ! : ; , the ideographic full stop, the
\* corner brackets, " and '
PunctuationChars ==
    {46, 44, 33, 63, 59, 58, 40, 41, 91, 93, 123, 125, 65311, 65281, 12290,
     65306, 65307, 65292, 12300, 12301, 34, 39}

CornerBrackets == {12300, 12301}

QuoteChars == {34, 39}

\* '!?' with the ideographic full stop and the fullwidth ! ?
SentenceFinalChars == {33, 63, 12290, 65281, 65311}

\* The nearest slot before i that holds no space, 0 when there is none.
PrevNonSpace(text, i) ==
    LET before == {j \in 1..(i - 1) : text[j] # SPACE}
    IN  IF before = {} THEN 0 ELSE CHOOSE j \in before : \A k \in before : k <= j

\* The nearest slot after i that holds no space, 0 when there is none.
NextNonSpace(text, i) ==
    LET after == {j \in (i + 1)..Len(text) : text[j] # SPACE}
    IN  IF after = {} THEN 0 ELSE CHOOSE j \in after : \A k \in after : k >= j

\* Pass 4, a space.
SpaceAssignment(text, ca, i) ==
    IF i > 1 /\ ca[i - 1] = "english" THEN "english"
    ELSE IF i < Len(text) /\ ca[i + 1] = "english" THEN "english"
    ELSE IF i > 1 /\ ca[i - 1] = "japanese" THEN "japanese"
    ELSE IF i < Len(text) /\ ca[i + 1] = "japanese" THEN "japanese"
    ELSE "chinese"

\* Mutant of ContextAssignment: the category after is copied even when it
\* is still 'unassigned' (the test of line 412 is missing).
ContextAssignmentCopiesNext(text, ca, i) ==
    LET prev == PrevNonSpace(text, i)
        next == NextNonSpace(text, i)
    IN  IF prev > 0 THEN ca[prev]
        ELSE IF next > 0 THEN ca[next]
        ELSE "chinese"

\* Pass 4, punctuation that no earlier rule assigned: the category before,
\* else the category after unless that is still 'unassigned', else Chinese.
ContextAssignment(text, ca, i) ==
    LET prev == PrevNonSpace(text, i)
        next == NextNonSpace(text, i)
        prev_assignment == IF prev > 0 THEN ca[prev] ELSE "None"
        next_assignment ==
            IF next > 0 /\ ca[next] # "unassigned" THEN ca[next] ELSE "None"
    IN  IF prev_assignment # "None" THEN prev_assignment
        ELSE IF next_assignment # "None" THEN next_assignment
        ELSE "chinese"

\* Pass 4, a punctuation character.
PunctAssignment(text, ca, i) ==
    IF text[i] \in CornerBrackets THEN "japanese"
    ELSE IF text[i] \in QuoteChars THEN "english"
    ELSE IF text[i] \in SentenceFinalChars /\ PrevNonSpace(text, i) > 0
         THEN ca[PrevNonSpace(text, i)]
         ELSE ContextAssignment(text, ca, i)

\* Mutant of Pass4Slot: the final else branch (line 423) is missing, so a
\* character that is neither a space nor punctuation stays unassigned.
Pass4SlotNoDefault(text, ca, i) ==
    IF ca[i] # "unassigned" THEN ca
    ELSE IF text[i] = SPACE
         THEN [ca EXCEPT ![i] = SpaceAssignment(text, ca, i)]
    ELSE IF text[i] \in PunctuationChars
         THEN [ca EXCEPT ![i] = PunctAssignment(text, ca, i)]
    ELSE ca

\* Pass 4, slot i.
Pass4Slot(text, ca, i) ==
    IF ca[i] # "unassigned" THEN ca
    ELSE IF text[i] = SPACE
         THEN [ca EXCEPT ![i] = SpaceAssignment(text, ca, i)]
    ELSE IF text[i] \in PunctuationChars
         THEN [ca EXCEPT ![i] = PunctAssignment(text, ca, i)]
    ELSE [ca EXCEPT ![i] = "chinese"]

\* Pass 4: left to right, from slot i on.
RECURSIVE Pass4From(_, _, _)
Pass4From(text, ca, i) ==
    IF i > Len(text) THEN ca
    ELSE Pass4From(text, Pass4Slot(text, ca, i), i + 1)

Pass4(text, ca) == Pass4From(text, ca, 1)

\* The characters of one category, in order.
RECURSIVE CollectFrom(_, _, _, _)
CollectFrom(text, ca, category, i) ==
    IF i > Len(text) THEN <<>>
    ELSE (IF ca[i] = category THEN <<text[i]>> ELSE <<>>)
             \o CollectFrom(text, ca, category, i + 1)

CollectChars(text, ca, category) == CollectFrom(text, ca, category, 1)

\* re.sub(r'\s+', ' ', ''.join(chars)).strip()
CleanText(chars) == Strip(CollapseWs(chars))

\* Mutant of KanaSeparates: the Chinese text is not looked at.
KanaSeparatesWithoutChinese(japanese, english, chinese) ==
    Len(japanese) > 0 \/ Len(english) > 0

\* The test of line 445.
KanaSeparates(japanese, english, chinese) ==
    Len(chinese) > 0 /\ (Len(japanese) > 0 \/ Len(english) > 0)

\* Mutant of KanaLines: one line per language.
KanaLinesPerLanguage(japanese, english, chinese) ==
    <<japanese, english, chinese>>

\* Mutant of KanaLines: Japanese alone, English on the Chinese line.
KanaLinesEnglishWithChinese(japanese, english, chinese) ==
    <<japanese, Strip(english \o <<SPACE>> \o chinese)>>

\* Lines 447-454.
KanaLines(japanese, english, chinese) ==
    LET first_line_parts ==
            (IF Len(japanese) > 0 THEN <<japanese>> ELSE <<>>)
                \o (IF Len(english) > 0 THEN <<english>> ELSE <<>>)
    IN  <<Strip(Join(first_line_parts, <<SPACE>>)), chinese>>

(***************************************************************************)
(* _separate_languages: the English + Han path (lines 457-483).            *)
(***************************************************************************)
\* ' \t\n\r.,!?;:\'"()[]{}'
LatinPunctuation ==
    {32, 9, 10, 13, 46, 44, 33, 63, 59, 58, 39, 34, 40, 41, 91, 93, 123, 125}

\* ' \'".,!?()[]'
EnglishPunctuation == {32, 39, 34, 46, 44, 33, 63, 40, 41, 91, 93}

\* Which list a character of the English + Han path is appended to.
LatinHanCategory(c) ==
    IF IsAsciiAlpha(c) \/ IsDigit(c) THEN "english"
    ELSE IF IsKanji(c) THEN "chinese"
    ELSE IF c \in LatinPunctuation
         THEN (IF c \in EnglishPunctuation THEN "english" ELSE "chinese")
         ELSE "chinese"

LatinHanAssignments(text) == [i \in 1..Len(text) |-> LatinHanCategory(text[i])]

\* Lines 476-477 and 480.
LatinHanChinese(text) ==
    Strip(CollectChars(text, LatinHanAssignments(text), "chinese"))

LatinHanEnglish(text) ==
    Strip(CollapseWs(Strip(CollectChars(text, LatinHanAssignments(text), "english"))))

\* Mutant of LatinHanSeparates: any English text at all is enough.
LatinHanSeparatesAnyEnglish(english, chinese) ==
    Len(chinese) > 0 /\ Len(english) > 0

\* The test of line 482.
LatinHanSeparates(english, chinese) == Len(chinese) > 0 /\ Len(english) > 1

\* Mutant of Unseparated: the text is returned trimmed.
UnseparatedTrimmed(text) == <<Strip(text)>>

\* return [text]
Unseparated(text) == <<text>>

\* _separate_languages as a function of its argument.
SeparateLanguages(text) ==
    IF Strip(text) = <<>> THEN <<text>>
    ELSE IF IsJapaneseContext(text)
    THEN LET ca == Pass4(text, Pass3(text, Pass2(text, Pass1(text, Unassigned(text)))))
             japanese == CleanText(CollectChars(text, ca, "japanese"))
             english == CleanText(CollectChars(text, ca, "english"))
             chinese == CleanText(CollectChars(text, ca, "chinese"))
         IN  IF KanaSeparates(japanese, english, chinese)
             THEN KanaLines(japanese, english, chinese)
             ELSE Unseparated(text)
    ELSE IF HasEnglish(text) /\ HasKanji(text) /\ ~IsJapaneseContext(text)
    THEN IF LatinHanSeparates(LatinHanEnglish(text), LatinHanChinese(text))
         THEN <<LatinHanEnglish(text), LatinHanChinese(text)>>
         ELSE Unseparated(text)
    ELSE Unseparated(text)

(***************************************************************************)
(* _is_metadata_line (lines 192-235).                                      *)
(***************************************************************************)
\* by, ar, ti, al, offset, re, ve, length
HeaderTags ==
    {<<98, 121>>, <<97, 114>>, <<116, 105>>, <<97, 108>>,
     <<111, 102, 102, 115, 101, 116>>, <<114, 101>>, <<118, 101>>,
     <<108, 101, 110, 103, 116, 104>>}

\* re.match(r'^\[tag:.*\]$', line): the line opens with [tag: and closes
\* with ], with no line break in between.
MatchesHeader(line, tag) ==
    /\ Len(line) >= Len(tag) + 3
    /\ StartsWith(line, <<91>> \o tag \o <<58>>)
    /\ line[Len(line)] = 93
    /\ \A i \in (Len(tag) + 3)..(Len(line) - 1) : line[i] # NEWLINE

\* re.match(r'^(\[\d{2}:\d{2}\.\d{2,3}\])', line): the length of the tag the
\* line starts with, 0 when it starts with none.
TimestampLen(line) ==
    IF /\ Len(line) >= 10
       /\ line[1] = 91
       /\ IsDecimal(line[2]) /\ IsDecimal(line[3])
       /\ line[4] = 58
       /\ IsDecimal(line[5]) /\ IsDecimal(line[6])
       /\ line[7] = 46
       /\ IsDecimal(line[8]) /\ IsDecimal(line[9])
    THEN IF Len(line) >= 11 /\ IsDecimal(line[10]) /\ line[11] = 93 THEN 11
         ELSE IF line[10] = 93 THEN 10
         ELSE 0
    ELSE 0

\* timestamp_match.group(1)
Timestamp(line) == SubSeq(line, 1, TimestampLen(line))

\* line[len(timestamp):].strip()
Content(line) == Strip(SubSeq(line, TimestampLen(line) + 1, Len(line)))

\* The credit labels of lines 219-228.
CreditLabels ==
    {<<20316, 35789>>, <<20316, 26354>>, <<32534, 26354>>,
     <<21046, 20316, 20154>>, <<28436, 21809>>, <<27468, 25163>>,
     <<19987, 36753>>, <<21457, 34892>>, <<35789>>, <<26354>>}

\* ':' and the fullwidth colon
ColonChars == {58, 65306}

\* Mutant of MatchesCredit: the pattern without \s*.
MatchesCreditNoGap(content, label) ==
    /\ StartsWith(content, label)
    /\ Len(content) > Len(label)
    /\ content[Len(label) + 1] \in ColonChars

\* re.match(r'^label\s*[:：]', content)
MatchesCredit(content, label) ==
    /\ StartsWith(content, label)
    /\ LET rest == LStrip(SubSeq(content, Len(label) + 1, Len(content)))
       IN  rest # <<>> /\ rest[1] \in ColonChars

IsMetadataLine(line0) ==
    LET line == Strip(line0)
    IN  \/ \E tag \in HeaderTags : MatchesHeader(line, tag)
        \/ /\ TimestampLen(line) > 0
           /\ \E label \in CreditLabels : MatchesCredit(Content(line), label)

(***************************************************************************)
(* parse_bilingual_lyrics (lines 237-281): the body of its loop.           *)
(***************************************************************************)
\* Mutant of LineBranch: the timestamp is looked for before the metadata
\* test.
LineBranchTimestampFirst(line) ==
    IF line = <<>> THEN "blank"
    ELSE IF TimestampLen(line) > 0 THEN "timestamp"
    ELSE IF IsMetadataLine(line) THEN "metadata"
    ELSE "plain"

\* The branch the loop body takes for a (trimmed) line.
LineBranch(line) ==
    IF line = <<>> THEN "blank"
    ELSE IF IsMetadataLine(line) THEN "metadata"
    ELSE IF TimestampLen(line) > 0 THEN "timestamp"
    ELSE "plain"

\* The separated lines that are not blank, each after the timestamp.
RECURSIVE Stamped(_, _)
Stamped(timestamp, separated_lines) ==
    IF separated_lines = <<>> THEN <<>>
    ELSE (IF Strip(Head(separated_lines)) # <<>>
          THEN <<timestamp \o Head(separated_lines)>>
          ELSE <<>>)
             \o Stamped(timestamp, Tail(separated_lines))

\* Mutant of TimestampedLines: only the first line carries the timestamp.
TimestampedLinesFirstOnly(line, separated_lines) ==
    IF Len(separated_lines) > 1
    THEN <<Timestamp(line) \o separated_lines[1]>> \o Tail(separated_lines)
    ELSE <<line>>

\* Mutant of TimestampedLines: the lines come out last first.
TimestampedLinesReversed(line, separated_lines) ==
    IF Len(separated_lines) > 1
    THEN Stamped(Timestamp(line),
                 [k \in DOMAIN separated_lines |->
                     separated_lines[Len(separated_lines) + 1 - k]])
    ELSE <<line>>

\* Lines 265-272: what a line with a timestamp appends.
TimestampedLines(line, separated_lines) ==
    IF Len(separated_lines) > 1
    THEN Stamped(Timestamp(line), separated_lines)
    ELSE <<line>>

\* Lines 276-279: what a line without a timestamp appends.
PlainLines(line, separated_lines) ==
    IF Len(separated_lines) > 1 THEN separated_lines ELSE <<line>>

\* Lines 246-279: what the loop body appends for one line of the text.
LineOutput(line0) ==
    LET line == Strip(line0)
    IN  IF LineBranch(line) \in {"blank", "metadata"} THEN <<line>>
        ELSE IF LineBranch(line) = "timestamp"
             THEN TimestampedLines(line, SeparateLanguages(Content(line)))
             ELSE PlainLines(line, SeparateLanguages(line))

\* Lines 245-279: the loop over the lines.
RECURSIVE ParseLines(_)
ParseLines(lines) ==
    IF lines = <<>> THEN <<>>
    ELSE LineOutput(Head(lines)) \o ParseLines(Tail(lines))

\* parse_bilingual_lyrics as a function of its argument.
ParseBilingualLyrics(lyrics_text) ==
    IF lyrics_text = <<>> THEN <<>>
    ELSE ParseLines(Split(lyrics_text, NEWLINE))

(***************************************************************************)
(* State.  One call of _separate_languages: its argument, its locals and   *)
(* its return value.  One call of parse_bilingual_lyrics: its argument,    *)
(* its locals and, beside the list it returns, a record for every line of  *)
(* the loop of the branch taken, the argument handed to                    *)
(* _separate_languages and the output lines appended for it.               *)
(***************************************************************************)
VARIABLES
    pc,
    text, char_assignments, japanese_text, english_text, chinese_text, result,
    lyrics_text, lines, processed_lines, handled

sepVars ==
    <<text, char_assignments, japanese_text, english_text, chinese_text, result>>

parseVars == <<lyrics_text, lines, processed_lines, handled>>

vars == <<pc, sepVars, parseVars>>

(***************************************************************************)
(* The arguments of _separate_languages the model runs it on: a hiragana,  *)
(* a katakana, a Han character, a letter, a digit, space, tab, comma,      *)
(* exclamation mark, corner bracket, double quote.  The texts are the      *)
(* strings of at most MaxLen of these characters, and the same strings     *)
(* short of one character after the two letters "aa", which give the       *)
(* English + Han path an English text of more than one character and room  *)
(* for three more characters.                                              *)
(***************************************************************************)
SepAlphabet == {12354, 12450, 20013, 97, 49, 32, 9, 44, 33, 12300, 34}

SepTexts ==
    StringsUpTo(SepAlphabet, MaxLen)
        \cup {<<97, 97>> \o s : s \in StringsUpTo(SepAlphabet, MaxLen - 1)}

(***************************************************************************)
(* _separate_languages, step by step.                                      *)
(***************************************************************************)
SepInit ==
    /\ pc = "start"
    /\ text \in SepTexts
    /\ char_assignments = <<>>
    /\ japanese_text = <<>>
    /\ english_text = <<>>
    /\ chinese_text = <<>>
    /\ result = <<>>
    /\ lyrics_text = <<>>
    /\ lines = <<>>
    /\ processed_lines = <<>>
    /\ handled = <<>>

\* Lines 285-286.
ReturnBlank ==
    /\ pc = "start"
    /\ Strip(text) = <<>>
    /\ result' = <<text>>
    /\ pc' = "done"
    /\ UNCHANGED <<text, char_assignments, japanese_text, english_text,
                   chinese_text, parseVars>>

\* Lines 288-300 and 457: the path taken.
SelectPath ==
    /\ pc = "start"
    /\ Strip(text) # <<>>
    /\ IF IsJapaneseContext(text)
       THEN /\ char_assignments' = Unassigned(text)
            /\ pc' = "pass1"
       ELSE /\ char_assignments' = char_assignments
            /\ pc' = IF HasEnglish(text) /\ HasKanji(text) /\ ~IsJapaneseContext(text)
                     THEN "latin_han"
                     ELSE "fallback"
    /\ UNCHANGED <<text, japanese_text, english_text, chinese_text, result,
                   parseVars>>

\* Lines 302-305.
AssignKana ==
    /\ pc = "pass1"
    /\ char_assignments' = Pass1(text, char_assignments)
    /\ pc' = "pass2"
    /\ UNCHANGED <<text, japanese_text, english_text, chinese_text, result,
                   parseVars>>

\* Lines 307-338.
AssignKanji ==
    /\ pc = "pass2"
    /\ char_assignments' = Pass2(text, char_assignments)
    /\ pc' = "pass3"
    /\ UNCHANGED <<text, japanese_text, english_text, chinese_text, result,
                   parseVars>>

\* Lines 339-341.
AssignEnglish ==
    /\ pc = "pass3"
    /\ char_assignments' = Pass3(text, char_assignments)
    /\ pc' = "pass4"
    /\ UNCHANGED <<text, japanese_text, english_text, chinese_text, result,
                   parseVars>>

\* Lines 343-423.
AssignOthers ==
    /\ pc = "pass4"
    /\ char_assignments' = Pass4(text, char_assignments)
    /\ pc' = "collect"
    /\ UNCHANGED <<text, japanese_text, english_text, chinese_text, result,
                   parseVars>>

\* Lines 425-442.
CollectKana ==
    /\ pc = "collect"
    /\ japanese_text' = CleanText(CollectChars(text, char_assignments, "japanese"))
    /\ english_text' = CleanText(CollectChars(text, char_assignments, "english"))
    /\ chinese_text' = CleanText(CollectChars(text, char_assignments, "chinese"))
    /\ pc' = "decide"
    /\ UNCHANGED <<text, char_assignments, result, parseVars>>

\* Lines 444-454.
DecideKana ==
    /\ pc = "decide"
    /\ IF KanaSeparates(japanese_text, english_text, chinese_text)
       THEN /\ result' = KanaLines(japanese_text, english_text, chinese_text)
            /\ pc' = "done"
       ELSE /\ result' = result
            /\ pc' = "fallback"
    /\ UNCHANGED <<text, char_assignments, japanese_text, english_text,
                   chinese_text, parseVars>>

\* Lines 458-480.
CollectLatinHan ==
    /\ pc = "latin_han"
    /\ chinese_text' = LatinHanChinese(text)
    /\ english_text' = LatinHanEnglish(text)
    /\ pc' = "decide_latin_han"
    /\ UNCHANGED <<text, char_assignments, japanese_text, result, parseVars>>

\* Lines 482-483.
DecideLatinHan ==
    /\ pc = "decide_latin_han"
    /\ IF LatinHanSeparates(english_text, chinese_text)
       THEN /\ result' = <<english_text, chinese_text>>
            /\ pc' = "done"
       ELSE /\ result' = result
            /\ pc' = "fallback"
    /\ UNCHANGED <<text, char_assignments, japanese_text, english_text,
                   chinese_text, parseVars>>

\* Lines 485-486.
ReturnOriginal ==
    /\ pc = "fallback"
    /\ result' = Unseparated(text)
    /\ pc' = "done"
    /\ UNCHANGED <<text, char_assignments, japanese_text, english_text,
                   chinese_text, parseVars>>

SepNext ==
    \/ ReturnBlank
    \/ SelectPath
    \/ AssignKana
    \/ AssignKanji
    \/ AssignEnglish
    \/ AssignOthers
    \/ CollectKana
    \/ DecideKana
    \/ CollectLatinHan
    \/ DecideLatinHan
    \/ ReturnOriginal

Spec == SepInit /\ [][SepNext]_vars

(***************************************************************************)
(* The arguments of parse_bilingual_lyrics the model runs it on: a line    *)
(* is a body of Han characters (the two of the credit label U+4F5C U+8BCD, *)
(* the second a label of its own), a colon, a space, a kana and a letter,  *)
(* bare or set in a frame: a timestamp of two or of three digits, a        *)
(* timestamp between spaces, a malformed timestamp, an LRC header in lower *)
(* case, in upper case, and between spaces.  A text is one such line,      *)
(* alone or followed by a second line.                                     *)
(***************************************************************************)
ParseAlphabet == {20316, 35789, 58, 32, 12354, 97}

Bodies == StringsUpTo(ParseAlphabet, MaxBody)

Frames ==
    {<< <<>>, <<>> >>,
     << <<91, 48, 48, 58, 49, 53, 46, 50, 51, 93>>, <<>> >>,
     << <<91, 48, 48, 58, 49, 53, 46, 50, 51, 52, 93>>, <<>> >>,
     << <<32, 91, 48, 49, 58, 50, 51, 46, 52, 53, 93>>, <<32>> >>,
     << <<91, 48, 58, 49, 53, 46, 50, 51, 93>>, <<>> >>,
     << <<91, 98, 121, 58>>, <<93>> >>,
     << <<91, 66, 89, 58>>, <<93>> >>,
     << <<32, 91, 116, 105, 58>>, <<93, 32>> >>}

FramedLines == {f[1] \o b \o f[2] : f \in Frames, b \in Bodies}

SecondLines == {<<>>, <<12354, 32, 20316>>, <<91, 97, 114, 58, 97, 93>>}

LyricsTexts ==
    FramedLines \cup {l \o <<NEWLINE>> \o t : l \in FramedLines, t \in SecondLines}

(***************************************************************************)
(* parse_bilingual_lyrics, line by line.                                   *)
(***************************************************************************)
ParseInit ==
    /\ pc = "parse"
    /\ lyrics_text \in LyricsTexts
    /\ lines = <<>>
    /\ processed_lines = <<>>
    /\ handled = <<>>
    /\ text = <<>>
    /\ char_assignments = <<>>
    /\ japanese_text = <<>>
    /\ english_text = <<>>
    /\ chinese_text = <<>>
    /\ result = <<>>

\* The line the loop is at, trimmed (line 246).
CurrentLine == Strip(lines[Len(handled) + 1])

\* Lines 239-240.
ReturnNoLines ==
    /\ pc = "parse"
    /\ lyrics_text = <<>>
    /\ pc' = "parsed"
    /\ UNCHANGED <<sepVars, parseVars>>

\* Lines 242-243.
SplitLines ==
    /\ pc = "parse"
    /\ lyrics_text # <<>>
    /\ lines' = Split(lyrics_text, NEWLINE)
    /\ pc' = "loop"
    /\ UNCHANGED <<sepVars, lyrics_text, processed_lines, handled>>

\* Lines 247-249.
BlankLine ==
    /\ pc = "loop"
    /\ Len(handled) < Len(lines)
    /\ LineBranch(CurrentLine) = "blank"
    /\ processed_lines' = Append(processed_lines, <<>>)
    /\ handled' = Append(handled,
           [branch |-> "blank", calls |-> <<>>, returned |-> <<>>,
            emitted |-> << <<>> >>])
    /\ UNCHANGED <<pc, sepVars, lyrics_text, lines>>

\* Lines 251-254.
MetadataLine ==
    /\ pc = "loop"
    /\ Len(handled) < Len(lines)
    /\ LineBranch(CurrentLine) = "metadata"
    /\ processed_lines' = Append(processed_lines, CurrentLine)
    /\ handled' = Append(handled,
           [branch |-> "metadata", calls |-> <<>>, returned |-> <<>>,
            emitted |-> <<CurrentLine>>])
    /\ UNCHANGED <<pc, sepVars, lyrics_text, lines>>

\* Lines 256-272.
TimestampedLine ==
    /\ pc = "loop"
    /\ Len(handled) < Len(lines)
    /\ LineBranch(CurrentLine) = "timestamp"
    /\ LET content == Content(CurrentLine)
           separated_lines == SeparateLanguages(content)
           appended == TimestampedLines(CurrentLine, separated_lines)
       IN  /\ processed_lines' = processed_lines \o appended
           /\ handled' = Append(handled,
                  [branch |-> "timestamp", calls |-> <<content>>,
                   returned |-> separated_lines, emitted |-> appended])
    /\ UNCHANGED <<pc, sepVars, lyrics_text, lines>>

\* Lines 273-279.
PlainLine ==
    /\ pc = "loop"
    /\ Len(handled) < Len(lines)
    /\ LineBranch(CurrentLine) = "plain"
    /\ LET separated_lines == SeparateLanguages(CurrentLine)
           appended == PlainLines(CurrentLine, separated_lines)
       IN  /\ processed_lines' = processed_lines \o appended
           /\ handled' = Append(handled,
                  [branch |-> "plain", calls |-> <<CurrentLine>>,
                   returned |-> separated_lines, emitted |-> appended])
    /\ UNCHANGED <<pc, sepVars, lyrics_text, lines>>

\* Line 281.
ReturnLines ==
    /\ pc = "loop"
    /\ Len(handled) = Len(lines)
    /\ pc' = "parsed"
    /\ UNCHANGED <<sepVars, parseVars>>

ParseNext ==
    \/ ReturnNoLines
    \/ SplitLines
    \/ BlankLine
    \/ MetadataLine
    \/ TimestampedLine
    \/ PlainLine
    \/ ReturnLines

ParseSpec == ParseInit /\ [][ParseNext]_vars

(***************************************************************************)
(* Properties of _separate_languages, checked under Spec.                  *)
(***************************************************************************)
\* How often c occurs in s.
Count(s, c) == Cardinality({i \in DOMAIN s : s[i] = c})

\* The returned strings one after the other.
Concatenated(strings) == Join(strings, <<>>)

IsKana(c) == IsHiragana(c) \/ IsKatakana(c)

\* The slots of the space-delimited token around slot p.
TokenSlots(s, p) ==
    {q \in DOMAIN s :
        \A r \in DOMAIN s : (r >= q /\ r <= p) \/ (r >= p /\ r <= q) => s[r] # SPACE}

\* The places of _separate_languages before its return, each with the
\* condition under which a step leaves it.
SepCanStep ==
    \/ pc = "start" /\ Strip(text) = <<>>
    \/ pc = "start" /\ Strip(text) # <<>>
    \/ /\ pc \in {"pass1", "pass2", "pass3", "pass4", "collect"}
       /\ DOMAIN char_assignments = DOMAIN text
    \/ pc \in {"decide", "latin_han", "decide_latin_han", "fallback"}

\* C1: for every input string _separate_languages comes to its return (at
\* every place before the return a step can be taken, and the passes read
\* and write only slots of the string) and returns a list of one or two
\* strings; an empty or whitespace-only input is returned as it is, as the
\* only element.
C1_SeparateTotal ==
    /\ pc # "done" => SepCanStep
    /\ pc = "done" =>
          /\ Len(result) \in {1, 2}
          /\ Strip(text) = <<>> => result = <<text>>

C1_Witness ==
    /\ pc = "done"
    /\ Len(text) >= 2
    /\ \A i \in DOMAIN text : IsSpace(text[i])
    /\ result = <<text>>

\* C2: the non-whitespace characters of the returned strings, taken
\* together, are those of the input, each as often as in the input.
C2_CharacterConservation ==
    pc = "done" =>
        \A c \in Range(text) \cup Range(Concatenated(result)) :
            ~IsSpace(c) => Count(Concatenated(result), c) = Count(text, c)

C2_Witness ==
    /\ pc = "done"
    /\ IsJapaneseContext(text)
    /\ Len(result) = 2
    /\ \E i \in DOMAIN text : IsDigit(text[i])
    /\ \E i \in DOMAIN text : text[i] \in PunctuationChars

\* C8: a content without kana that does not hold both an ASCII letter and a
\* Han character is returned as the only element, character for character.
C8_PathCUnchanged ==
    (/\ pc = "done"
     /\ ~\E i \in DOMAIN text : IsKana(text[i])
     /\ ~(/\ \E i \in DOMAIN text : IsAsciiAlpha(text[i])
          /\ \E i \in DOMAIN text : IsKanji(text[i])))
        => result = <<text>>

C8_Witness ==
    /\ pc = "done"
    /\ ~\E i \in DOMAIN text : IsKana(text[i])
    /\ ~\E i \in DOMAIN text : IsAsciiAlpha(text[i])
    /\ \E i \in DOMAIN text : IsKanji(text[i])
    /\ IsSpace(text[1])
    /\ \E i, j \in DOMAIN text : j = i + 1 /\ IsSpace(text[i]) /\ IsSpace(text[j])
    /\ result = <<text>>

\* C9: on the kana path, once pass 2 is over, every Han character is
\* Japanese if the space-delimited token it stands in holds a kana and
\* Chinese otherwise, wherever the spaces are.
C9_HanByToken ==
    (IsJapaneseContext(text) /\ pc \notin {"start", "pass1", "pass2"}) =>
        \A p \in DOMAIN text :
            IsKanji(text[p]) =>
                char_assignments[p] =
                    IF \E q \in TokenSlots(text, p) : IsKana(text[q])
                    THEN "japanese"
                    ELSE "chinese"

C9_Witness ==
    /\ pc = "pass3"
    /\ IsJapaneseContext(text)
    /\ \E p \in DOMAIN text :
          /\ p >= 3
          /\ text[p - 1] = SPACE
          /\ text[p - 2] = SPACE
          /\ IsKanji(text[p])
          /\ char_assignments[p] = "chinese"

RECURSIVE EmittedBy(_)
EmittedBy(h) ==
    IF h = <<>> THEN <<>> ELSE Head(h).emitted \o EmittedBy(Tail(h))

\* s is a tag [dd:dd.dd] or [dd:dd.ddd].
IsTag(s) ==
    /\ Len(s) \in {10, 11}
    /\ s[1] = 91 /\ s[4] = 58 /\ s[7] = 46 /\ s[Len(s)] = 93
    /\ \A k \in (DOMAIN s) \ {1, 4, 7, Len(s)} : s[k] \in 48..57

\* The tag a line starts with, <<>> when it starts with none.
LeadingTag(line) ==
    IF Len(line) >= 10 /\ IsTag(SubSeq(line, 1, 10)) THEN SubSeq(line, 1, 10)
    ELSE IF Len(line) >= 11 /\ IsTag(SubSeq(line, 1, 11)) THEN SubSeq(line, 1, 11)
    ELSE <<>>

\* The text after the tag, trimmed.
AfterTag(line) == Strip(SubSeq(line, Len(LeadingTag(line)) + 1, Len(line)))

\* C3: every output line derived from an input line that starts with a tag
\* [dd:dd.dd] or [dd:dd.ddd] begins with that tag, character for character.
C3_TimestampFidelity ==
    /\ processed_lines = EmittedBy(handled)
    /\ \A i \in DOMAIN handled :
          LeadingTag(lines[i]) # <<>> =>
              \A k \in DOMAIN handled[i].emitted :
                  StartsWith(handled[i].emitted[k], LeadingTag(lines[i]))

C3_Witness ==
    /\ pc = "parsed"
    /\ \E i \in DOMAIN handled :
          /\ Len(LeadingTag(lines[i])) = 11
          /\ Len(handled[i].emitted) = 2
          /\ handled[i].emitted[1] # handled[i].emitted[2]

\* C4 as stated: every input line that matches a metadata pattern comes out
\* as one output line identical to the input line, whitespace around it
\* included, and is not passed to _separate_languages.
C4_MetadataByteForByte ==
    \A i \in DOMAIN handled :
        IsMetadataLine(lines[i]) =>
            /\ handled[i].emitted = <<lines[i]>>
            /\ handled[i].calls = <<>>

\* C4, amended: every input line that matches a metadata pattern comes out
\* as one output line identical to the input line without the whitespace
\* around it, and is not passed to _separate_languages.
C4_MetadataTrimmed ==
    \A i \in DOMAIN handled :
        IsMetadataLine(lines[i]) =>
            /\ handled[i].emitted = <<Strip(lines[i])>>
            /\ handled[i].calls = <<>>

C4_Witness ==
    /\ pc = "parsed"
    /\ \E i \in DOMAIN handled :
          /\ IsMetadataLine(lines[i])
          /\ lines[i] # Strip(lines[i])
          /\ LeadingTag(Strip(lines[i])) # <<>>
          /\ \E k \in DOMAIN lines[i] : IsKana(lines[i][k])
          /\ handled[i].emitted = <<Strip(lines[i])>>

\* The lower-case form of an ASCII letter.
Lower(c) == IF c >= 65 /\ c <= 90 THEN c + 32 ELSE c

\* line is [TAG:anything] with TAG a header tag in any mix of cases.
IsHeaderAnyCase(line) ==
    \E tag \in HeaderTags :
        /\ Len(line) >= Len(tag) + 3
        /\ line[1] = 91
        /\ \A k \in DOMAIN tag : Lower(line[k + 1]) = tag[k]
        /\ line[Len(tag) + 2] = 58
        /\ line[Len(line)] = 93

\* C5: a whole line [TAG:anything], TAG a header tag in any mix of upper and
\* lower case, is taken for metadata, comes out unchanged and is not
\* separated.
C5_HeaderAnyCase ==
    \A i \in DOMAIN handled :
        IsHeaderAnyCase(lines[i]) =>
            /\ handled[i].branch = "metadata"
            /\ handled[i].emitted = <<lines[i]>>
            /\ handled[i].calls = <<>>

\* line is an LRC header as _is_metadata_line tests it.
IsHeader(line) == \E tag \in HeaderTags : MatchesHeader(line, tag)

\* line starts with a tag and its content begins with a credit label, then
\* gap whitespace characters, then a colon.
IsCreditWithGap(line, gap) ==
    /\ LeadingTag(line) # <<>>
    /\ \E label \in CreditLabels :
          /\ StartsWith(AfterTag(line), label)
          /\ Len(AfterTag(line)) > Len(label) + gap
          /\ \A m \in 1..gap : IsSpace(AfterTag(line)[Len(label) + m])
          /\ AfterTag(line)[Len(label) + gap + 1] \in ColonChars

\* C6 as stated: a line that is no LRC header is metadata exactly when it
\* starts with a tag and its content begins with a credit label with the
\* colon right after it.
C6_CreditColonAdjacent ==
    \A i \in DOMAIN handled :
        ~IsHeader(Strip(lines[i])) =>
            (handled[i].branch = "metadata" <=> IsCreditWithGap(Strip(lines[i]), 0))

\* C6, amended: a line that is no LRC header is metadata exactly when it
\* starts with a tag and its content begins with a credit label followed by
\* any number of whitespace characters (none included) and then a colon.
C6_CreditColonAfterWhitespace ==
    \A i \in DOMAIN handled :
        ~IsHeader(Strip(lines[i])) =>
            (handled[i].branch = "metadata" <=>
                 \E gap \in 0..Len(lines[i]) : IsCreditWithGap(Strip(lines[i]), gap))

C6_Witness ==
    /\ pc = "parsed"
    /\ \E i \in DOMAIN handled :
          /\ ~IsHeader(Strip(lines[i]))
          /\ handled[i].branch = "metadata"
          /\ IsCreditWithGap(Strip(lines[i]), 1)
          /\ handled[i].emitted = <<Strip(lines[i])>>

\* C7: a line that is neither blank nor metadata is passed, without its
\* tag and trimmed, to _separate_languages; when one string comes back the
\* line comes out once, trimmed; when two come back, two lines come out,
\* the tag (nothing when the line has none) before the first string and the
\* tag before the second, in that order.
C7_Reassembly ==
    /\ processed_lines = EmittedBy(handled)
    /\ \A i \in DOMAIN handled :
          (Strip(lines[i]) # <<>> /\ ~IsMetadataLine(lines[i])) =>
              /\ handled[i].calls = <<AfterTag(Strip(lines[i]))>>
              /\ Len(handled[i].returned) \in {1, 2}
              /\ Len(handled[i].returned) = 1 =>
                     handled[i].emitted = <<Strip(lines[i])>>
              /\ Len(handled[i].returned) = 2 =>
                     handled[i].emitted =
                         <<LeadingTag(Strip(lines[i])) \o handled[i].returned[1],
                           LeadingTag(Strip(lines[i])) \o handled[i].returned[2]>>

C7_Witness ==
    /\ pc = "parsed"
    /\ \E i \in DOMAIN handled :
          /\ handled[i].branch = "timestamp"
          /\ Len(handled[i].returned) = 2
          /\ Len(handled[i].emitted) = 2
    /\ \E i \in DOMAIN handled :
          /\ handled[i].branch = "plain"
          /\ Len(handled[i].returned) = 2
          /\ Len(handled[i].emitted) = 2

(***************************************************************************)
(* Further properties of _separate_languages, checked under Spec.          *)
(***************************************************************************)
\* The characters of s that are in the set S (keep) or outside it (~keep),
\* in order.
RECURSIVE Only(_, _, _)
Only(s, S, keep) ==
    IF s = <<>> THEN <<>>
    ELSE (IF (Head(s) \in S) = keep THEN <<Head(s)>> ELSE <<>>)
             \o Only(Tail(s), S, keep)

\* The characters of a text that the English + Han path counts as English:
\* ASCII letters, digits, space ' " . , ! ? ( ) [ ]
EnglishSide(s) ==
    {c \in Range(s) :
        IsAsciiAlpha(c) \/ IsDigit(c)
            \/ c \in {32, 39, 34, 46, 44, 33, 63, 40, 41, 91, 93}}

\* C11: for a content without kana that holds an ASCII letter and a Han
\* character, the English text is the ASCII letters, digits and the
\* characters space ' " . , ! ? ( ) [ ] in order, trimmed and with its
\* whitespace collapsed, the Chinese text is every other character in
\* order, trimmed; [English text, Chinese text] is returned exactly when the
\* Chinese text is not empty and the English text is longer than one
\* character, and the content as it is otherwise.
C11_LatinHanPath ==
    (/\ pc = "done"
     /\ ~\E i \in DOMAIN text : IsKana(text[i])
     /\ \E i \in DOMAIN text : IsAsciiAlpha(text[i])
     /\ \E i \in DOMAIN text : IsKanji(text[i])) =>
        LET english == Strip(CollapseWs(Strip(Only(text, EnglishSide(text), TRUE))))
            chinese == Strip(Only(text, EnglishSide(text), FALSE))
        IN  IF chinese # <<>> /\ Len(english) > 1
            THEN result = <<english, chinese>>
            ELSE result = <<text>>

C11_Witness ==
    /\ pc = "done"
    /\ ~\E i \in DOMAIN text : IsKana(text[i])
    /\ \E i \in DOMAIN text : IsDigit(text[i])
    /\ \E i \in DOMAIN text : text[i] = 12300
    /\ Count(text, 97) = 1
    /\ Len(result) = 2
    /\ Len(result[1]) = 2
\* A string without leading or trailing whitespace whose only whitespace
\* characters are single spaces.
Normalised(s) ==
    /\ Strip(s) = s
    /\ \A i \in DOMAIN s : IsSpace(s[i]) => s[i] = SPACE
    /\ \A i \in 1..(Len(s) - 1) : ~(s[i] = SPACE /\ s[i + 1] = SPACE)

\* C12: whenever two strings are returned, on either path, each of them has
\* no leading or trailing whitespace, no run of two or more whitespace
\* characters and no whitespace character other than a single space.
C12_WhitespaceNormalised ==
    (pc = "done" /\ Len(result) = 2) =>
        Normalised(result[1]) /\ Normalised(result[2])

(***************************************************************************)
(* Pass 4 of the kana path, checked under Spec between pass 4 and the      *)
(* collection.                                                             *)
(***************************************************************************)
\* The punctuation that pass 4 assigns by its context alone.
ContextPunctuation ==
    PunctuationChars \ (CornerBrackets \cup QuoteChars \cup SentenceFinalChars)

\* The characters that passes 1 to 3 assign: kana, Han and ASCII letters.
AssignedBeforePass4(c) == IsKana(c) \/ IsKanji(c) \/ IsAsciiAlpha(c)

\* The nearest slot after i whose character passes 1 to 3 assigned, 0 when
\* there is none.
NextAssigned(s, i) ==
    LET after == {j \in (i + 1)..Len(s) : AssignedBeforePass4(s[j])}
    IN  IF after = {} THEN 0 ELSE CHOOSE j \in after : \A k \in after : k >= j

\* C14: on the kana path a punctuation character other than corner
\* brackets, quotes and sentence-final marks takes the category of the
\* nearest character before it if there is one, otherwise that of the
\* nearest assigned character after it, and is Chinese only when there is
\* no assigned character on either side; so a punctuation character with
\* nothing before it, followed by more punctuation and then kana or
\* letters, takes the category of that kana or letter.
C14_PunctuationInheritance ==
    pc = "collect" =>
        \A i \in DOMAIN text :
            text[i] \in ContextPunctuation =>
                char_assignments[i] =
                    IF PrevNonSpace(text, i) > 0
                    THEN char_assignments[PrevNonSpace(text, i)]
                    ELSE IF NextAssigned(text, i) > 0
                         THEN char_assignments[NextAssigned(text, i)]
                         ELSE "chinese"

\* C15: on the kana path, after pass 4 and before the collection, every
\* slot of the assignment holds japanese, english or chinese and none holds
\* 'unassigned'; no punctuation has copied 'unassigned' from a neighbour.
C15_FullResolution ==
    pc = "collect" =>
        /\ DOMAIN char_assignments = DOMAIN text
        /\ \A i \in DOMAIN text :
               char_assignments[i] \in {"japanese", "english", "chinese"}

C15_Witness ==
    /\ pc = "collect"
    /\ Len(text) >= 3
    /\ text[1] = 44
    /\ text[2] = 33
    /\ \E i \in DOMAIN text : IsKana(text[i])
    /\ char_assignments[1] = "chinese"
    /\ char_assignments[2] = "chinese"

(***************************************************************************)
(* The two strings of a separation and the lines the parse makes of them.  *)
(***************************************************************************)
\* [00:15.23]
SampleTimestamp == <<91, 48, 48, 58, 49, 53, 46, 50, 51, 93>>

\* A string with at least one character that is not whitespace.
NonBlank(s) == \E i \in DOMAIN s : ~IsSpace(s[i])

\* C16: whenever two strings are returned both hold at least one character
\* that is not whitespace, and on the kana path the first holds a kana; so
\* for a separated line neither branch of the parse appends a blank line or
\* a line that is a timestamp alone: the branch with a timestamp, which
\* skips blank strings, appends both strings after the timestamp, and the
\* branch without, which skips nothing, appends the two strings.
C16_BothLinesNonBlank ==
    (pc = "done" /\ Len(result) = 2) =>
        /\ NonBlank(result[1])
        /\ NonBlank(result[2])
        /\ (\E i \in DOMAIN text : IsKana(text[i]))
               => \E i \in DOMAIN result[1] : IsKana(result[1][i])
        /\ LET stamped == TimestampedLines(SampleTimestamp \o text, result)
           IN  /\ stamped = <<SampleTimestamp \o result[1],
                              SampleTimestamp \o result[2]>>
               /\ \A k \in DOMAIN stamped :
                      Strip(stamped[k]) # SampleTimestamp
        /\ LET plain == PlainLines(text, result)
           IN  /\ Len(plain) = 2
               /\ \A k \in DOMAIN plain : NonBlank(plain[k])

C16_Witness ==
    /\ pc = "done"
    /\ Len(result) = 2
    /\ \E i \in DOMAIN text : IsKana(text[i])
    /\ Count(text, 32) >= 1
    /\ Count(text, 9) >= 1
    /\ Len(result[2]) = 1

(***************************************************************************)
(* A second run of parse_bilingual_lyrics on its own output, checked       *)
(* under ParseSpec when the first run has returned.                        *)
(***************************************************************************)
\* The text process_single_file makes of the lines (line 594).
ProcessedLyrics == Join(processed_lines, <<NEWLINE>>)

\* C17 as stated: for every text, the lines of the first run joined with
\* '\n' and parsed again give the same list of lines.
C17_FixedPoint ==
    pc = "parsed" => ParseBilingualLyrics(ProcessedLyrics) = processed_lines

\* C17: for every text whose output is not the single blank line [''], the
\* lines of the first run joined with '\n' and parsed again give the same
\* list of lines: no line a separation produced is separated or altered by
\* the second run.
C17_FixedPointUnlessOneBlankLine ==
    (pc = "parsed" /\ processed_lines # << <<>> >>) =>
        ParseBilingualLyrics(ProcessedLyrics) = processed_lines

C17_Witness ==
    /\ pc = "parsed"
    /\ Len(handled) = 2
    /\ handled[1].branch = "timestamp"
    /\ Len(handled[1].returned) = 2
    /\ \E i \in DOMAIN handled[1].returned[1] :
           IsAsciiAlpha(handled[1].returned[1][i])
    /\ handled[2].branch = "plain"
    /\ Len(handled[2].returned) = 2
    /\ Len(processed_lines) = 4
    /\ ParseBilingualLyrics(ProcessedLyrics) = processed_lines

====
